---- MODULE Spec2Model ----
(***************************************************************************)
(* Model of estafette-extension-prefetch (src/main.go): stage selection    *)
(* and deduplication, credential resolution, sequential docker logins and  *)
(* the parallel docker pulls joined by a sync.WaitGroup.                    *)
(*                                                                         *)
(* Strings the program splits on '/' (image references, repositories) are  *)
(* sequences of one-character strings.  A when clause is a sequence of      *)
(* tokens.                                                                  *)
(***************************************************************************)
EXTENDS Integers, Sequences, FiniteSets, TLC

VARIABLES
    stages,                 \* decoded ESTAFETTE_STAGES
    credentials,            \* decoded ESTAFETTE_CREDENTIALS_CONTAINER_REGISTRY
    env,                    \* the environment read by getParameters
    pc,                     \* position of main
    dedupedStages,          \* main.dedupedStages
    wg,                     \* counter of main.wg
    filteredCredentialsMap, \* loginIfRequired.filteredCredentialsMap
    loginTodo,              \* map keys the range loop has not visited yet
    loginInFlight,          \* keys whose docker login is running
    logins,                 \* docker login invocations issued, in order
    loginErr,               \* the errors of the docker logins that exited
    launchIdx,              \* index of the range loop that launches pulls
    pulls,                  \* per launched goroutine: its position
    pullErr,                \* per goroutine: the error of its docker pull
    pullCalls,              \* docker pull invocations issued, per image
    logged,                 \* log lines written
    ctx                     \* the cancellation request, and what was in
                            \* flight when it came

vars == <<stages, credentials, env, pc, dedupedStages, wg,
          filteredCredentialsMap, loginTodo, loginInFlight, logins, loginErr,
          launchIdx, pulls, pullErr, pullCalls, logged, ctx>>

----------------------------------------------------------------------------
(* Bounds *)

MaxStages == 3
MaxCreds == 2
MaxSelStages == 3
MaxResImages == 2
MaxResCreds == 2

----------------------------------------------------------------------------
(* Generic helpers *)

SeqsUpTo(S, n) == UNION {[1..k -> S] : k \in 0..n}

Range(s) == {s[i] : i \in 1..Len(s)}

Slash == "/"

----------------------------------------------------------------------------
(* strings.Split(s, "/") and strings.Join(a, "/") on character sequences *)

RECURSIVE SplitFrom(_, _, _)
SplitFrom(s, cur, acc) ==
    IF s = <<>> THEN Append(acc, cur)
    ELSE IF Head(s) = Slash
         THEN SplitFrom(Tail(s), <<>>, Append(acc, cur))
         ELSE SplitFrom(Tail(s), Append(cur, Head(s)), acc)

Split(s) == SplitFrom(s, <<>>, <<>>)

RECURSIVE Join(_)
Join(a) ==
    IF Len(a) = 0 THEN <<>>
    ELSE IF Len(a) = 1 THEN a[1]
    ELSE a[1] \o <<Slash>> \o Join(Tail(a))

----------------------------------------------------------------------------
(* Data *)

Stage(n, img, w) == [Name |-> n, ContainerImage |-> img, When |-> w]

Credential(repo, user, pass) ==
    [Repository |-> repo, Username |-> user, Password |-> pass]

\* Tokens of a when clause
Var(n) == [k |-> "var", v |-> n]
Lit(s) == [k |-> "lit", v |-> s]
Op(o) == [k |-> "op", v |-> o]

\* Values an expression evaluates to
BoolVal(b) == [t |-> "bool", b |-> b, s |-> ""]
StrVal(s) == [t |-> "string", b |-> FALSE, s |-> s]
NilVal == [t |-> "nil", b |-> FALSE, s |-> ""]

----------------------------------------------------------------------------
(* getParameters and evaluateWhen *)

ParameterNames == {"branch", "trigger", "status", "action", "server"}

getParameters(e) ==
    [n \in ParameterNames |->
        IF n = "server" THEN "estafette" ELSE e[n]]

IsOperand(tok) == tok.k \in {"var", "lit"}

IsComparator(tok) == tok.k = "op" /\ tok.v \in {"==", "!="}

\* govaluate.NewEvaluableExpression: err == nil
NewEvaluableExpressionOk(input) ==
    \/ Len(input) = 1 /\ IsOperand(input[1])
    \/ /\ Len(input) = 3
       /\ IsOperand(input[1])
       /\ IsComparator(input[2])
       /\ IsOperand(input[3])

\* value of one operand; a variable missing from the parameters is an error
OperandValue(tok, parameters) ==
    IF tok.k = "lit" THEN [r |-> StrVal(tok.v), err |-> FALSE]
    ELSE IF tok.v \in DOMAIN parameters
         THEN [r |-> StrVal(parameters[tok.v]), err |-> FALSE]
         ELSE [r |-> NilVal, err |-> TRUE]

\* expression.Evaluate(parameters): (r, err)
Evaluate(input, parameters) ==
    IF Len(input) = 1 THEN OperandValue(input[1], parameters)
    ELSE LET l == OperandValue(input[1], parameters)
             r == OperandValue(input[3], parameters)
         IN IF l.err \/ r.err THEN [r |-> NilVal, err |-> TRUE]
            ELSE IF input[2].v = "=="
                 THEN [r |-> BoolVal(l.r = r.r), err |-> FALSE]
                 ELSE [r |-> BoolVal(l.r # r.r), err |-> FALSE]

evaluateWhenEmptyPasses(input, parameters) ==
    IF input = <<>> THEN [result |-> TRUE, err |-> FALSE]
    ELSE IF ~NewEvaluableExpressionOk(input)
         THEN [result |-> FALSE, err |-> TRUE]
         ELSE LET e == Evaluate(input, parameters)
              IN IF e.r.t = "bool"
                 THEN [result |-> e.r.b, err |-> e.err]
                 ELSE [result |-> FALSE, err |-> TRUE]

evaluateWhen(input, parameters) ==
    IF input = <<>> THEN [result |-> FALSE, err |-> TRUE]
    ELSE IF ~NewEvaluableExpressionOk(input)
         THEN [result |-> FALSE, err |-> TRUE]
         ELSE LET e == Evaluate(input, parameters)
              IN IF e.r.t = "bool"
                 THEN [result |-> e.r.b, err |-> e.err]
                 ELSE [result |-> FALSE, err |-> TRUE]

----------------------------------------------------------------------------
(* main, lines 69-92: deduplicate stages by image path *)

alreadyAddedLastOnly(p, deduped) ==
    /\ Len(deduped) > 0
    /\ p.ContainerImage = deduped[Len(deduped)].ContainerImage

\* lines 80-86
alreadyAdded(p, deduped) ==
    \E i \in 1..Len(deduped) : p.ContainerImage = deduped[i].ContainerImage

dedupStepPrepend(deduped, p, e) ==
    LET w == evaluateWhen(p.When, getParameters(e))
    IN IF w.err \/ ~w.result THEN deduped
       ELSE IF alreadyAdded(p, deduped) THEN deduped
       ELSE <<p>> \o deduped

dedupStepNoCheck(deduped, p, e) ==
    LET w == evaluateWhen(p.When, getParameters(e))
    IN IF w.err \/ ~w.result THEN deduped
       ELSE Append(deduped, p)

\* one iteration of the loop over stages
dedupStep(deduped, p, e) ==
    LET w == evaluateWhen(p.When, getParameters(e))
    IN IF w.err \/ ~w.result THEN deduped
       ELSE IF alreadyAdded(p, deduped) THEN deduped
       ELSE Append(deduped, p)

RECURSIVE dedupLoop(_, _, _, _)
dedupLoop(ss, i, deduped, e) ==
    IF i > Len(ss) THEN deduped
    ELSE dedupLoop(ss, i + 1, dedupStep(deduped, ss[i], e), e)

selectStages(ss, e) == dedupLoop(ss, 1, <<>>, e)

----------------------------------------------------------------------------
(* getCredentialsForContainers *)

containerRepoFirstSegment(ci) == Split(ci)[1]

\* lines 127-128
containerRepo(ci) ==
    LET containerImageSlice == Split(ci)
    IN Join(SubSeq(containerImageSlice, 1, Len(containerImageSlice) - 1))

\* s is a prefix of t
HasPrefix(t, s) == Len(s) <= Len(t) /\ SubSeq(t, 1, Len(s)) = s

RECURSIVE findCredentialHasPrefix(_, _, _)
findCredentialHasPrefix(creds, repo, i) ==
    IF i > Len(creds) THEN 0
    ELSE IF HasPrefix(creds[i].Repository, repo) THEN i
    ELSE findCredentialHasPrefix(creds, repo, i + 1)

RECURSIVE findCredentialNoBreak(_, _, _)
findCredentialNoBreak(creds, repo, i) ==
    IF i > Len(creds) THEN 0
    ELSE LET later == findCredentialNoBreak(creds, repo, i + 1)
         IN IF later # 0 THEN later
            ELSE IF repo = creds[i].Repository THEN i ELSE 0

\* lines 136-142: index of the first credential whose repository is repo, or 0
RECURSIVE findCredential(_, _, _)
findCredential(creds, repo, i) ==
    IF i > Len(creds) THEN 0
    ELSE IF repo = creds[i].Repository THEN i
    ELSE findCredential(creds, repo, i + 1)

\* the map is a function from the repositories added so far to credentials
MapPut(m, key, val) ==
    [x \in DOMAIN m \cup {key} |-> IF x = key THEN val ELSE m[x]]

EmptyMap == [x \in {} |-> 0]

Count(m, x) == IF x \in DOMAIN m THEN m[x] ELSE 0

resolveStepKeyByImage(m, creds, ci) ==
    LET repo == containerRepo(ci)
    IN IF ci \in DOMAIN m THEN m
       ELSE LET idx == findCredential(creds, repo, 1)
            IN IF idx = 0 THEN m
               ELSE MapPut(m, ci, creds[idx])

\* lines 127-142: one iteration of the loop over the container images
resolveStep(m, creds, ci) ==
    LET repo == containerRepo(ci)
    IN IF repo \in DOMAIN m THEN m
       ELSE LET idx == findCredential(creds, repo, 1)
            IN IF idx = 0 THEN m
               ELSE MapPut(m, creds[idx].Repository, creds[idx])

RECURSIVE resolveLoop(_, _, _, _)
resolveLoop(m, creds, images, i) ==
    IF i > Len(images) THEN m
    ELSE resolveLoop(resolveStep(m, creds, images[i]), creds, images, i + 1)

getCredentialsForContainers(creds, containerImages) ==
    resolveLoop(EmptyMap, creds, containerImages, 1)

loginArgsAlwaysServer(c) ==
    LET repositorySlice == Split(c.Repository)
    IN [username |-> c.Username,
        password |-> c.Password,
        server |-> <<repositorySlice[1]>>]

\* loginIfRequired, lines 195-207
loginArgs(c) ==
    LET repositorySlice == Split(c.Repository)
    IN [username |-> c.Username,
        password |-> c.Password,
        server |-> IF Len(repositorySlice) > 1
                   THEN <<repositorySlice[1]>> ELSE <<>>]

----------------------------------------------------------------------------
(* Inputs *)

RepoEmpty == <<>>
RepoHost == <<"r">>
RepoTeam == <<"r", "/", "t">>
RepoOther == <<"r", "/", "o">>
RepoTeamSlash == <<"r", "/", "t", "/">>
ImgOfficial == <<"a">>
ImgLeadingSlash == <<"/", "a">>
ImgHostApp == <<"r", "/", "a">>
ImgTeamApp == <<"r", "/", "t", "/", "a">>
ImgTeamBis == <<"r", "/", "t", "/", "b">>
ImgOtherApp == <<"r", "/", "o", "/", "a">>

WhenEmpty == <<>>
WhenSucceeded == <<Var("status"), Op("=="), Lit("succeeded")>>
WhenFailed == <<Var("status"), Op("!="), Lit("succeeded")>>
WhenNotBoolean == <<Var("status")>>
WhenUnparseable == <<Var("status"), Op("==")>>
WhenUnknownVar == <<Var("nope"), Op("=="), Lit("succeeded")>>

Env(st) == [branch |-> "master", trigger |-> "", status |-> st, action |-> ""]

EnvSet == {Env("succeeded"), Env("failed")}

\* credential lists: the repositories vary, the i-th credential of a list has
\* a username and a password of its own
CredentialLists(repos, n) ==
    {[i \in 1..Len(rs) |->
         Credential(rs[i], "u" \o ToString(i), "p" \o ToString(i))] :
     rs \in SeqsUpTo(repos, n)}

\* inputs of a whole run
RunImages == {ImgTeamApp, ImgOtherApp, ImgOfficial}
RunWhens == {WhenUnknownVar, WhenFailed}
RunStages == {Stage("A", img, w) : img \in RunImages, w \in RunWhens}
RunRepos == {RepoTeam, RepoOther}

\* inputs of the selection
SelImages == {ImgTeamApp, ImgOfficial}
SelWhens == {WhenEmpty, WhenSucceeded, WhenNotBoolean, WhenUnparseable}
SelStages ==
    {Stage(n, img, w) : n \in {"A", "B", "C"}, img \in SelImages, w \in SelWhens}

\* inputs of the credential resolution
ResImages == {ImgOfficial, ImgLeadingSlash, ImgHostApp, ImgTeamApp, ImgTeamBis,
              ImgOtherApp}
ResRepos == {RepoEmpty, RepoHost, RepoTeam, RepoOther, RepoTeamSlash}
ResStages == {Stage("A", img, WhenSucceeded) : img \in ResImages}

----------------------------------------------------------------------------
(* Log lines *)

Line(msg, arg, n) == [msg |-> msg, arg |-> arg, n |-> n]

----------------------------------------------------------------------------
(* Cancellation request: whether it came, and the docker logins (by their   *)
(* position in logins) and docker pulls (by goroutine) in flight then       *)

Cancellation(c, ls, ps) == [cancelled |-> c, logins |-> ls, pulls |-> ps]

NotCancelled == Cancellation(FALSE, {}, {})

----------------------------------------------------------------------------
(* State after flag parsing and JSON decoding, main lines 33-61 *)

InitRun(ss, cs, e) ==
    /\ stages = ss
    /\ credentials = cs
    /\ env = e
    /\ pc = "select"
    /\ dedupedStages = <<>>
    /\ wg = 0
    /\ filteredCredentialsMap = EmptyMap
    /\ loginTodo = {}
    /\ loginInFlight = {}
    /\ logins = <<>>
    /\ loginErr = <<>>
    /\ launchIdx = 0
    /\ pulls = <<>>
    /\ pullErr = <<>>
    /\ pullCalls = EmptyMap
    /\ logged = {}
    /\ ctx = NotCancelled

Init ==
    \E ss \in SeqsUpTo(RunStages, MaxStages),
       cs \in CredentialLists(RunRepos, MaxCreds),
       e \in EnvSet : InitRun(ss, cs, e)

\* the process has not exited: log.Fatal exits it, and so does the return of
\* main; the goroutines of an exited process take no further step
Alive == pc \notin {"done", "fatal"}

----------------------------------------------------------------------------
(* main *)

SelectAcceptEmpty ==
    /\ pc = "select"
    /\ dedupedStages' = selectStages(stages, env)
    /\ wg' = wg + Len(dedupedStages')
    /\ pc' = "resolve"
    /\ pulls' = [i \in 1..Len(dedupedStages') |-> "idle"]
    /\ pullErr' = [i \in 1..Len(dedupedStages') |-> "none"]
    /\ UNCHANGED <<stages, credentials, env, filteredCredentialsMap,
                   loginTodo, loginInFlight, logins, loginErr, launchIdx, pullCalls,
                   logged,
                   ctx>>

SelectFatalWhenNoneSelected ==
    /\ pc = "select"
    /\ IF Len(selectStages(stages, env)) = 0
       THEN /\ pc' = "fatal"
            /\ logged' = logged \cup {Line("No stages", <<>>, 0)}
            /\ UNCHANGED <<dedupedStages, wg, pulls, pullErr>>
       ELSE /\ dedupedStages' = selectStages(stages, env)
            /\ wg' = wg + Len(dedupedStages')
            /\ pc' = "resolve"
            /\ pulls' = [i \in 1..Len(dedupedStages') |-> "idle"]
            /\ pullErr' = [i \in 1..Len(dedupedStages') |-> "none"]
            /\ UNCHANGED logged
    /\ UNCHANGED <<stages, credentials, env, filteredCredentialsMap,
                   loginTodo, loginInFlight, logins, loginErr, launchIdx,
                   pullCalls, ctx>>

\* lines 63-95: reject an empty stage list, select, wg.Add
Select ==
    /\ pc = "select"
    /\ IF Len(stages) = 0
       THEN /\ pc' = "fatal"
            /\ logged' = logged \cup {Line("No stages", <<>>, 0)}
            /\ UNCHANGED <<dedupedStages, wg, pulls, pullErr>>
       ELSE /\ dedupedStages' = selectStages(stages, env)
            /\ wg' = wg + Len(dedupedStages')
            /\ pc' = "resolve"
            /\ pulls' = [i \in 1..Len(dedupedStages') |-> "idle"]
            /\ pullErr' = [i \in 1..Len(dedupedStages') |-> "none"]
            /\ UNCHANGED logged
    /\ UNCHANGED <<stages, credentials, env, filteredCredentialsMap,
                   loginTodo, loginInFlight, logins, loginErr, launchIdx, pullCalls,
                   ctx>>

\* loginIfRequired, lines 179-189
Resolve ==
    /\ pc = "resolve"
    /\ LET containerImages ==
               [i \in 1..Len(dedupedStages) |-> dedupedStages[i].ContainerImage]
       IN filteredCredentialsMap' =
              getCredentialsForContainers(credentials, containerImages)
    /\ loginTodo' = DOMAIN filteredCredentialsMap'
    /\ logged' = logged \cup
           {Line("Filtering credentials", <<>>, Len(dedupedStages)),
            Line("Filtered credentials", <<>>,
                 Cardinality(DOMAIN filteredCredentialsMap'))}
    /\ pc' = "login"
    /\ UNCHANGED <<stages, credentials, env, dedupedStages, wg, loginInFlight,
                   logins, loginErr, launchIdx, pulls, pullErr, pullCalls,
                   ctx>>

LoginStartNoWait(k) ==
    /\ pc = "login"
    /\ k \in loginTodo
    /\ loginTodo' = loginTodo \ {k}
    /\ loginInFlight' = loginInFlight \cup {k}
    /\ logins' = Append(logins, loginArgs(filteredCredentialsMap[k]))
    /\ logged' = logged \cup {Line("Logging in to repository", k, 0)}
    /\ UNCHANGED <<stages, credentials, env, pc, dedupedStages, wg,
                   filteredCredentialsMap, loginErr, launchIdx, pulls,
                   pullErr, pullCalls,
                   ctx>>

\* lines 192-209: the range loop takes a map entry (in any order) and starts
\* docker login, which main waits for
LoginStart(k) ==
    /\ pc = "login"
    /\ k \in loginTodo
    /\ loginTodo' = loginTodo \ {k}
    /\ loginInFlight' = loginInFlight \cup {k}
    /\ logins' = Append(logins, loginArgs(filteredCredentialsMap[k]))
    /\ logged' = logged \cup {Line("Logging in to repository", k, 0)}
    /\ pc' = "loginRun"
    /\ UNCHANGED <<stages, credentials, env, dedupedStages, wg,
                   filteredCredentialsMap, loginErr, launchIdx, pulls,
                   pullErr, pullCalls,
                   ctx>>

handleErrorIgnore(err) == "login"

\* lines 216-220: where main continues after handleError(err)
handleError(err) == IF err THEN "fatal" ELSE "login"

\* lines 209-210: docker login exits, Run returns its error to main
LoginExit(k, err) ==
    /\ Alive
    /\ k \in loginInFlight
    /\ loginInFlight' = loginInFlight \ {k}
    /\ pc' = handleError(err)
    /\ logged' = IF handleError(err) = "fatal"
                 THEN logged \cup {Line("login failed", k, 0)}
                 ELSE logged
    /\ loginErr' = Append(loginErr, IF err THEN "error" ELSE "nil")
    /\ UNCHANGED <<stages, credentials, env, dedupedStages, wg,
                   filteredCredentialsMap, loginTodo, logins, launchIdx,
                   pulls, pullErr, pullCalls,
                   ctx>>

\* line 212: the range loop over the map ends
LoginsDone ==
    /\ pc = "login"
    /\ loginTodo = {}
    /\ pc' = "launch"
    /\ launchIdx' = 1
    /\ UNCHANGED <<stages, credentials, env, dedupedStages, wg,
                   filteredCredentialsMap, loginTodo, loginInFlight, logins, loginErr,
                   pulls, pullErr, pullCalls, logged,
                   ctx>>

\* lines 101-111: one go statement, or the end of the loop
Launch ==
    /\ pc = "launch"
    /\ IF launchIdx <= Len(dedupedStages)
       THEN /\ pulls' = [pulls EXCEPT ![launchIdx] = "ready"]
            /\ launchIdx' = launchIdx + 1
            /\ pc' = pc
       ELSE /\ pc' = "wait"
            /\ UNCHANGED <<pulls, launchIdx>>
    /\ UNCHANGED <<stages, credentials, env, dedupedStages, wg,
                   filteredCredentialsMap, loginTodo, loginInFlight, logins, loginErr,
                   pullErr, pullCalls, logged,
                   ctx>>

\* lines 104-109 and 228-233: the goroutine logs and starts docker pull
PullStart(i) ==
    /\ Alive
    /\ i \in DOMAIN pulls
    /\ pulls[i] = "ready"
    /\ pulls' = [pulls EXCEPT ![i] = "running"]
    /\ pullCalls' = MapPut(pullCalls, dedupedStages[i].ContainerImage,
                           Count(pullCalls, dedupedStages[i].ContainerImage) + 1)
    /\ logged' = logged \cup
           {Line("Pulling container image", dedupedStages[i].ContainerImage, 0),
            Line("Running command pull", dedupedStages[i].ContainerImage, 0)}
    /\ UNCHANGED <<stages, credentials, env, pc, dedupedStages, wg,
                   filteredCredentialsMap, loginTodo, loginInFlight, logins, loginErr,
                   launchIdx, pullErr,
                   ctx>>

PullExitFatal(i, err) ==
    /\ Alive
    /\ i \in DOMAIN pulls
    /\ pulls[i] = "running"
    /\ pulls' = [pulls EXCEPT ![i] = "done"]
    /\ pullErr' = [pullErr EXCEPT ![i] = IF err THEN "error" ELSE "nil"]
    /\ wg' = wg - 1
    /\ pc' = IF err THEN "fatal" ELSE pc
    /\ UNCHANGED <<stages, credentials, env, dedupedStages,
                   filteredCredentialsMap, loginTodo, loginInFlight, logins, loginErr,
                   launchIdx, pullCalls, logged,
                   ctx>>

PullExitNoDone(i, err) ==
    /\ Alive
    /\ i \in DOMAIN pulls
    /\ pulls[i] = "running"
    /\ pulls' = [pulls EXCEPT ![i] = "done"]
    /\ pullErr' = [pullErr EXCEPT ![i] = IF err THEN "error" ELSE "nil"]
    /\ UNCHANGED <<stages, credentials, env, pc, dedupedStages, wg,
                   filteredCredentialsMap, loginTodo, loginInFlight, logins,
                   loginErr, launchIdx, pullCalls, logged, ctx>>

\* lines 233-234, 109 and 103: docker pull exits, its error is dropped and
\* the deferred wg.Done runs
PullExit(i, err) ==
    /\ Alive
    /\ i \in DOMAIN pulls
    /\ pulls[i] = "running"
    /\ pulls' = [pulls EXCEPT ![i] = "done"]
    /\ pullErr' = [pullErr EXCEPT ![i] = IF err THEN "error" ELSE "nil"]
    /\ wg' = wg - 1
    /\ UNCHANGED <<stages, credentials, env, pc, dedupedStages,
                   filteredCredentialsMap, loginTodo, loginInFlight, logins, loginErr,
                   launchIdx, pullCalls, logged,
                   ctx>>

WaitNoBarrier ==
    /\ pc = "wait"
    /\ pc' = "done"
    /\ logged' = logged \cup {Line("Done prefetching", <<>>, Len(dedupedStages))}
    /\ UNCHANGED <<stages, credentials, env, dedupedStages, wg,
                   filteredCredentialsMap, loginTodo, loginInFlight, logins, loginErr,
                   launchIdx, pulls, pullErr, pullCalls,
                   ctx>>

\* lines 114-118: wg.Wait returns, the summary is logged and main returns
Wait ==
    /\ pc = "wait"
    /\ wg = 0
    /\ pc' = "done"
    /\ logged' = logged \cup {Line("Done prefetching", <<>>, Len(dedupedStages))}
    /\ UNCHANGED <<stages, credentials, env, dedupedStages, wg,
                   filteredCredentialsMap, loginTodo, loginInFlight, logins, loginErr,
                   launchIdx, pulls, pullErr, pullCalls,
                   ctx>>

Next ==
    \/ Select
    \/ Resolve
    \/ \E k \in loginTodo : LoginStart(k)
    \/ \E k \in loginInFlight, err \in BOOLEAN : LoginExit(k, err)
    \/ LoginsDone
    \/ Launch
    \/ \E i \in DOMAIN pulls : PullStart(i)
    \/ \E i \in DOMAIN pulls, err \in BOOLEAN : PullExit(i, err)
    \/ Wait

Spec == Init /\ [][Next]_vars

----------------------------------------------------------------------------
(* A whole run in which every enabled step is eventually taken: the         *)
(* scheduler runs main and every goroutine, and every docker command exits  *)

LiveStages == {Stage("A", img, WhenFailed) : img \in RunImages}

LiveCredentials ==
    {<<>>,
     <<Credential(RepoTeam, "u1", "p1")>>,
     <<Credential(RepoTeam, "u1", "p1"), Credential(RepoOther, "u2", "p2")>>}

InitLive ==
    \E ss \in SeqsUpTo(LiveStages, MaxStages),
       cs \in LiveCredentials,
       e \in EnvSet : InitRun(ss, cs, e)

FairSpec == InitLive /\ [][Next]_vars /\ WF_vars(Next)

----------------------------------------------------------------------------
(* A run during which cancellation is requested (an external termination   *)
(* request).  exec.Command takes no context and main installs no handler:   *)
(* no step of the program reads the request, and the commands in flight go  *)
(* on and exit with or without error.                                       *)

Cancel ==
    /\ Alive
    /\ ~ctx.cancelled
    /\ loginInFlight # {} \/ \E i \in DOMAIN pulls : pulls[i] = "running"
    /\ ctx' = Cancellation(TRUE,
                           IF loginInFlight = {} THEN {} ELSE {Len(logins)},
                           {i \in DOMAIN pulls : pulls[i] = "running"})
    /\ UNCHANGED <<stages, credentials, env, pc, dedupedStages, wg,
                   filteredCredentialsMap, loginTodo, loginInFlight, logins,
                   loginErr, launchIdx, pulls, pullErr, pullCalls, logged>>

NextCancel ==
    \/ Next
    \/ Cancel

SpecCancel == Init /\ [][NextCancel]_vars

----------------------------------------------------------------------------
(* The selection alone, over a richer set of stage lists *)

InitSel ==
    \E ss \in SeqsUpTo(SelStages, MaxSelStages), e \in EnvSet :
        InitRun(ss, <<>>, e)

NextSel == Select

SpecSel == InitSel /\ [][NextSel]_vars

----------------------------------------------------------------------------
(* Selection and credential resolution, over a richer set of image         *)
(* references and repositories                                             *)

InitRes ==
    \E ss \in SeqsUpTo(ResStages, MaxResImages),
       cs \in CredentialLists(ResRepos, MaxResCreds) :
        InitRun(ss, cs, Env("succeeded"))

NextRes ==
    \/ Select
    \/ Resolve

SpecRes == InitRes /\ [][NextRes]_vars

----------------------------------------------------------------------------
(* A whole run, over the richer set of image references and repositories *)

LoginImages == {ImgOfficial, ImgHostApp, ImgTeamApp, ImgTeamBis}
LoginRepos == {RepoEmpty, RepoHost, RepoTeam}
LoginStages == {Stage("A", img, WhenSucceeded) : img \in LoginImages}

InitResRun ==
    \E ss \in SeqsUpTo(LoginStages, MaxResImages),
       cs \in CredentialLists(LoginRepos, MaxResCreds) :
        InitRun(ss, cs, Env("succeeded"))

SpecResRun == InitResRun /\ [][Next]_vars

----------------------------------------------------------------------------
(* Vocabulary of the properties *)

\* what each when clause of the inputs means: the stage runs
Passes(w, e) ==
    \/ w = WhenSucceeded /\ e.status = "succeeded"
    \/ w = WhenFailed /\ e.status # "succeeded"

PassingImages ==
    {stages[i].ContainerImage :
        i \in {j \in 1..Len(stages) : Passes(stages[j].When, env)}}

PullIssued(i) == pulls[i] \in {"running", "done"}

SomeLoginFailed == \E i \in 1..Len(loginErr) : loginErr[i] = "error"

SomePullFailed == \E i \in DOMAIN pullErr : pullErr[i] = "error"

NoPullIssued ==
    /\ pullCalls = EmptyMap
    /\ \A i \in DOMAIN pulls : pulls[i] = "idle"

----------------------------------------------------------------------------
(* C1: once a docker login has failed the run is fatal: the failed login is *)
(* the last login issued, none is in flight, and no docker pull has been    *)
(* issued or is ever issued (a fatal run takes no further step).            *)
LoginFailFast ==
    SomeLoginFailed =>
        /\ pc = "fatal"
        /\ loginErr[Len(loginErr)] = "error"
        /\ Len(logins) = Len(loginErr)
        /\ loginInFlight = {}
        /\ NoPullIssued
        /\ ~ENABLED Next

LoginFailFastWitness ==
    /\ SomeLoginFailed
    /\ pc = "fatal"
    /\ loginTodo # {}
    /\ Len(dedupedStages) >= 2

(* C2: whenever a docker pull has been launched or issued, every docker     *)
(* login of the run has been issued and has exited: none is pending and     *)
(* none is in flight.                                                       *)
LoginPrecedesPull ==
    (\E i \in DOMAIN pulls : pulls[i] # "idle") \/ pullCalls # EmptyMap =>
        /\ loginTodo = {}
        /\ loginInFlight = {}
        /\ Len(loginErr) = Len(logins)
        /\ Len(logins) = Cardinality(DOMAIN filteredCredentialsMap)
        /\ pc \in {"launch", "wait", "done"}

LoginPrecedesPullWitness ==
    /\ \E i \in DOMAIN pulls : pulls[i] = "running"
    /\ Len(logins) = 2

(* C3: main is past wg.Wait (done, summary logged) only when every pull     *)
(* goroutine has been launched and has completed, with or without error.    *)
BarrierSynchronization ==
    pc = "done" \/ Line("Done prefetching", <<>>, Len(dedupedStages)) \in logged =>
        \A i \in DOMAIN pulls :
            /\ pulls[i] = "done"
            /\ pullErr[i] \in {"nil", "error"}

BarrierSynchronizationWitness ==
    /\ pc = "done"
    /\ Len(pulls) = 3
    /\ \E i, j \in DOMAIN pulls : pullErr[i] = "nil" /\ pullErr[j] = "error"

(* C4: a failed docker pull never makes the run fatal, and the run can stop *)
(* only at normal completion, where a pull has been issued for every        *)
(* selected image and every pull has completed.                             *)
PullFailureIsolation ==
    SomePullFailed =>
        /\ pc # "fatal"
        /\ pc = "done" \/ ENABLED Next
        /\ pc = "done" =>
               \A i \in DOMAIN pulls :
                   /\ pulls[i] = "done"
                   /\ Count(pullCalls, dedupedStages[i].ContainerImage) >= 1

PullFailureIsolationWitness ==
    /\ pc = "done"
    /\ Len(pulls) = 3
    /\ Cardinality({i \in DOMAIN pulls : pullErr[i] = "error"}) = 1
    /\ Cardinality({i \in DOMAIN pulls : pullErr[i] = "nil"}) = 2

----------------------------------------------------------------------------
(* The selection, stated on the positions of the stage list *)

\* stage i passes and no earlier passing stage has its image
FirstSeen(ss, e, i) ==
    /\ Passes(ss[i].When, e)
    /\ \A j \in 1..(i - 1) :
           Passes(ss[j].When, e) => ss[j].ContainerImage # ss[i].ContainerImage

FirstSeenIndices(ss, e) == {i \in 1..Len(ss) : FirstSeen(ss, e, i)}

\* the k-th smallest element of a set of positions
NthIndex(I, k) == CHOOSE i \in I : Cardinality({j \in I : j <= i}) = k

FirstSeenStages(ss, e) ==
    LET I == FirstSeenIndices(ss, e)
    IN [k \in 1..Cardinality(I) |-> ss[NthIndex(I, k)]]

PassingStage(st) == Passes(st.When, env)

Selected == pc \notin {"select", "fatal"}

(* C7: the selected sequence is the subsequence of the passing stages that  *)
(* are the first occurrence of their container image, in input order; the   *)
(* name of a stage plays no part.                                           *)
FirstSeenWins ==
    Selected => dedupedStages = FirstSeenStages(stages, env)

FirstSeenWinsWitness ==
    /\ Selected
    /\ env.status = "succeeded"
    /\ stages = <<Stage("A", ImgTeamApp, WhenSucceeded),
                  Stage("B", ImgOfficial, WhenSucceeded),
                  Stage("C", ImgTeamApp, WhenSucceeded)>>
    /\ dedupedStages = <<stages[1], stages[2]>>

(* C8: selecting again from the selected sequence, in the same environment, *)
(* yields the selected sequence.                                            *)
DedupIdempotent ==
    Selected => selectStages(dedupedStages, env) = dedupedStages

DedupIdempotentWitness ==
    /\ Selected
    /\ Len(dedupedStages) = 2
    /\ Len(stages) = 3
    /\ \A i \in 1..3 : PassingStage(stages[i])

(* C9: a stage whose when clause is empty, fails to parse, is not boolean   *)
(* or is false is never selected, never makes the run fatal, and the        *)
(* selection is the one made from the stage list without such stages.       *)
SilentSkip ==
    Len(stages) > 0 /\ pc # "select" =>
        /\ pc # "fatal"
        /\ \A i \in 1..Len(dedupedStages) :
               /\ dedupedStages[i].When # WhenEmpty
               /\ PassingStage(dedupedStages[i])
        /\ dedupedStages = selectStages(SelectSeq(stages, PassingStage), env)

SilentSkipWitness ==
    /\ Selected
    /\ Len(stages) = 3
    /\ stages[1].When = WhenEmpty
    /\ stages[2].When \in {WhenUnparseable, WhenNotBoolean}
    /\ PassingStage(stages[3])
    /\ dedupedStages = <<stages[3]>>

----------------------------------------------------------------------------
(* The repository prefix, stated on the positions of the image reference *)

SlashPositions(ci) == {i \in 1..Len(ci) : ci[i] = Slash}

\* everything before the last '/', nothing when there is no '/'
BeforeLastSlash(ci) ==
    IF SlashPositions(ci) = {} THEN <<>>
    ELSE SubSeq(ci, 1, (CHOOSE i \in SlashPositions(ci) :
                           \A j \in SlashPositions(ci) : j <= i) - 1)

Resolved == pc \notin {"select", "resolve", "fatal"}

(* C10: the key of an image is the image reference without its last         *)
(* '/'-delimited segment; the map has an entry for that key exactly when    *)
(* some credential has that repository, the entry is such a credential, and *)
(* the map has no other entries.                                            *)
CredentialPrefixMatching ==
    Resolved =>
        /\ \A i \in 1..Len(dedupedStages) :
               LET key == BeforeLastSlash(dedupedStages[i].ContainerImage)
               IN /\ key \in DOMAIN filteredCredentialsMap <=>
                         \E c \in Range(credentials) : c.Repository = key
                  /\ key \in DOMAIN filteredCredentialsMap =>
                         /\ filteredCredentialsMap[key] \in Range(credentials)
                         /\ filteredCredentialsMap[key].Repository = key
        /\ DOMAIN filteredCredentialsMap \subseteq
               {BeforeLastSlash(dedupedStages[i].ContainerImage) :
                   i \in 1..Len(dedupedStages)}

CredentialPrefixMatchingWitness ==
    /\ Resolved
    /\ Range(credentials) = {Credential(RepoTeam, "u1", "p1")}
    /\ {dedupedStages[i].ContainerImage : i \in 1..Len(dedupedStages)} =
           {ImgTeamApp, ImgOtherApp}
    /\ DOMAIN filteredCredentialsMap = {RepoTeam}

----------------------------------------------------------------------------
(* The credential list, stated on its positions *)

\* the positions of the credentials with repository k
PositionsOf(k) == {i \in 1..Len(credentials) : credentials[i].Repository = k}

FirstCredentialOf(k) ==
    credentials[CHOOSE i \in PositionsOf(k) : \A j \in PositionsOf(k) : i <= j]

(* C11: the credential the map holds for a repository is the first one of   *)
(* the credential list with that repository, whatever the order of the      *)
(* images and of the map iteration; every docker login carries the username *)
(* and password of such a first credential.                                 *)
FirstMatchDeterminism ==
    /\ \A k \in DOMAIN filteredCredentialsMap :
           filteredCredentialsMap[k] = FirstCredentialOf(k)
    /\ \A n \in 1..Len(logins) :
           \E k \in DOMAIN filteredCredentialsMap :
               /\ logins[n].username = FirstCredentialOf(k).Username
               /\ logins[n].password = FirstCredentialOf(k).Password

FirstMatchDeterminismWitness ==
    /\ Len(credentials) = 2
    /\ credentials[1].Repository = RepoTeam
    /\ credentials[2].Repository = RepoTeam
    /\ credentials[1].Username # credentials[2].Username
    /\ Len(logins) = 1
    /\ logins[1].username = credentials[1].Username
    /\ Len(dedupedStages) >= 2

----------------------------------------------------------------------------
(* C12: a docker login or docker pull that is in flight when cancellation   *)
(* is requested is interrupted: it does not run to completion, so it never  *)
(* exits without error.                                                     *)
CancellationInterrupts ==
    ctx.cancelled =>
        /\ \A i \in ctx.pulls : pulls[i] = "done" => pullErr[i] = "error"
        /\ \A n \in ctx.logins : n <= Len(loginErr) => loginErr[n] = "error"

----------------------------------------------------------------------------
(* C13: when the stage list is not empty and no stage passes, nothing is    *)
(* selected, no docker login and no docker pull is issued, the run is never *)
(* fatal and stops only at normal completion.                               *)
AllStagesFilteredOut ==
    Len(stages) > 0 /\ PassingImages = {} /\ pc # "select" =>
        /\ dedupedStages = <<>>
        /\ logins = <<>>
        /\ NoPullIssued
        /\ pc # "fatal"
        /\ pc = "done" \/ ENABLED Next
        /\ pc = "done" => Line("Done prefetching", <<>>, 0) \in logged

AllStagesFilteredOutWitness ==
    /\ Len(stages) = 3
    /\ PassingImages = {}
    /\ Len(credentials) = 2
    /\ pc = "done"

----------------------------------------------------------------------------
(* The logins, stated on the credential list: the usernames of a credential *)
(* list are distinct, so a login names its credential                       *)

CredentialOfLogin(n) ==
    CHOOSE c \in Range(credentials) : c.Username = logins[n].username

SelectedPrefixes ==
    {BeforeLastSlash(dedupedStages[i].ContainerImage) :
        i \in 1..Len(dedupedStages)}

(* C14: at most one docker login is in flight at any time, a login is       *)
(* issued only when the ones before it have exited, and no two logins of a  *)
(* run are for the same repository, which is the prefix of a selected image.*)
LoginsSequentialOncePerRepository ==
    /\ Cardinality(loginInFlight) <= 1
    /\ Len(logins) = Len(loginErr) + Cardinality(loginInFlight)
    /\ \A m, n \in 1..Len(logins) :
           m # n => CredentialOfLogin(m).Repository # CredentialOfLogin(n).Repository
    /\ \A n \in 1..Len(logins) :
           CredentialOfLogin(n).Repository \in SelectedPrefixes
    /\ Len(logins) <= Cardinality(SelectedPrefixes)

LoginsSequentialOncePerRepositoryWitness ==
    /\ Len(logins) = 2
    /\ Len(loginErr) = 1
    /\ Cardinality(loginInFlight) = 1
    /\ {dedupedStages[i].ContainerImage : i \in 1..Len(dedupedStages)} =
           {ImgTeamApp, ImgHostApp}

----------------------------------------------------------------------------
\* the log lines written for an image before its docker pull runs
PullStartLines(img) ==
    {Line("Pulling container image", img, 0), Line("Running command pull", img, 0)}

(* C15: when the run completes, every docker pull that failed has a log     *)
(* line of its image that reports the failure, that is, one written other   *)
(* than before the pull ran.                                                *)
PullFailuresLogged ==
    pc = "done" =>
        \A i \in DOMAIN pulls :
            pullErr[i] = "error" =>
                \E l \in logged :
                    /\ l.arg = dedupedStages[i].ContainerImage
                    /\ l \notin PullStartLines(dedupedStages[i].ContainerImage)

----------------------------------------------------------------------------
HasNoSlash(ci) == SlashPositions(ci) = {}

OnlySlashlessSelected ==
    /\ Resolved
    /\ Len(dedupedStages) > 0
    /\ \A i \in 1..Len(dedupedStages) : HasNoSlash(dedupedStages[i].ContainerImage)

----------------------------------------------------------------------------
(* The registry host, stated on the positions of the repository *)

\* everything before the first '/'
BeforeFirstSlash(r) ==
    SubSeq(r, 1, (CHOOSE i \in SlashPositions(r) :
                     \A j \in SlashPositions(r) : i <= j) - 1)

ExpectedServer(r) ==
    IF SlashPositions(r) = {} THEN <<>> ELSE <<BeforeFirstSlash(r)>>

(* C17: every docker login carries the username and the password of a       *)
(* credential of the map, and the leading '/'-delimited segment of its      *)
(* repository as registry host exactly when the repository has more than    *)
(* one segment (it contains a '/').                                         *)
LoginRegistryHost ==
    \A n \in 1..Len(logins) :
        \E k \in DOMAIN filteredCredentialsMap :
            LET c == filteredCredentialsMap[k]
            IN /\ logins[n].username = c.Username
               /\ logins[n].password = c.Password
               /\ logins[n].server = ExpectedServer(c.Repository)

LoginRegistryHostWitness ==
    /\ Len(logins) = 2
    /\ \E m, n \in 1..2 :
           /\ logins[m].server = <<>>
           /\ CredentialOfLogin(m).Repository = RepoHost
           /\ logins[n].server = <<RepoHost>>
           /\ CredentialOfLogin(n).Repository = RepoTeam

(* C18: every key of the credential map is the repository of the credential *)
(* it maps to and the repository prefix of a selected image, and a docker   *)
(* login is issued only with such a credential.                             *)
CredentialMapInvariant ==
    /\ \A k \in DOMAIN filteredCredentialsMap :
           /\ filteredCredentialsMap[k].Repository = k
           /\ k \in SelectedPrefixes
    /\ \A n \in 1..Len(logins) :
           LET c == CredentialOfLogin(n)
           IN /\ c.Repository \in DOMAIN filteredCredentialsMap
              /\ filteredCredentialsMap[c.Repository] = c
              /\ c.Repository \in SelectedPrefixes

CredentialMapInvariantWitness ==
    /\ pc = "done"
    /\ Len(credentials) = 2
    /\ credentials[1].Repository = RepoHost
    /\ credentials[2].Repository = RepoTeam
    /\ SelectedPrefixes = {RepoTeam, RepoEmpty}
    /\ DOMAIN filteredCredentialsMap = {RepoTeam}
    /\ Len(logins) = 1

----------------------------------------------------------------------------
PullsDone == {i \in DOMAIN pulls : pulls[i] = "done"}

CounterConsistent ==
    /\ wg >= 0
    /\ Selected =>
           /\ DOMAIN pulls = 1..Len(dedupedStages)
           /\ wg = Len(dedupedStages) - Cardinality(PullsDone)
    /\ pc = "done" => wg = 0

PassedBarrier == pc = "done" /\ wg = 0

====
